---- MODULE Spec2Model ----
(***************************************************************************)
(* A model of the taskgraph coordination framework:                        *)
(*   - pkg/etcdutil/healthy.go : Heartbeat, DetectFailure, computeTTL      *)
(*   - framework.go            : start, watchAll, the data request         *)
(*                               handler, the data response event loop,   *)
(*                               stop, Exit, SetEpoch, Flag*MetaReady      *)
(* The etcd store is modelled by its event history: every write appends    *)
(* one event and the store index is the length of the history.  A watch   *)
(* with wait index w returns the first event of its key whose index is    *)
(* >= w, from the history when it is already there; a watch with wait     *)
(* index 0 waits for the first event after its registration.  A response   *)
(* carries the event (its action, value and modified index) and EtcdIndex, *)
(* the store index at the moment the request was accepted.                *)
(***************************************************************************)
EXTENDS Integers, Sequences, FiniteSets, TLC

(***************************************************************************)
(* Bounds of the model.                                                    *)
(***************************************************************************)
\* largest heartbeat interval tried, in ticks (see Second)
MaxInterval == 4
\* number of store events in a run of the health monitor
MaxHealthIndex == 4

\* number of writes of the signal paths in a run of the framework, beside the
\* two creates of every start
MaxWrites == 2
\* largest epoch a task sets
MaxEpoch == 1

\* number of data requests in a run
MaxReq == 1

\* number of data requests in a run of the dispatch loop on its own
MaxQueue == 2

\* make(chan *dataResponse, 100): the capacity of dataRespChan
DataRespCap == 100

\* make(chan *etcd.Response, 10): the capacity of a receiver channel
ReceiverCap == 10

\* time.Second, as a number of clock ticks: durations are counted in half
\* seconds, so that intervals below one second exist
Second == 2

\* the task whose HealthRecord is heartbeaten and watched
HealthTask == 1

VARIABLES
    history,    \* the store: the sequence of events, history[i] has index i
    health,     \* the HealthRecord node: [present, hasTTL, left]
    hb,         \* Heartbeat: [pc, interval, timer, stop, result, writes, ttl]
    df,         \* DetectFailure: its position, locals, result and ghosts
    topology,   \* Topology: topology[e][t] = [parents, children] of t at epoch e
    epoch,      \* framework.epoch of every task
    proc,       \* every task's process: [started, crashed, exited, stops, task]
    watch,      \* the neighbour watches: <<task, who, neighbour>> -> its state
    requests,   \* the data requests made so far, with what became of each
    dataRespChan \* framework.dataRespChan of every task: a queue of requests

healthVars == <<health, hb, df>>
fwVars == <<topology, epoch, proc, watch, requests, dataRespChan>>
vars == <<history, health, hb, df, topology, epoch, proc, watch, requests,
          dataRespChan>>

(***************************************************************************)
(* The store.                                                              *)
(***************************************************************************)
HealthyPath(taskID) == <<"health", taskID>>

Event(path, action, value) == [path |-> path, action |-> action, value |-> value]

\* X-Etcd-Index: the current index of the store
EtcdIndex == Len(history)

\* indices of the events of `path` that a watch with wait index w can return
Matching(path, w) == {i \in 1..Len(history) : i >= w /\ history[i].path = path}

Min(S) == CHOOSE x \in S : \A y \in S : x <= y

(***************************************************************************)
(* computeTTL: uint64(math.Min(5*float64(interval/time.Second), 1)).       *)
(* interval/time.Second is a division of integers (time.Duration).         *)
(***************************************************************************)
MathMin(x, y) == IF x < y THEN x ELSE y

computeTTL(interval) == MathMin(5 * (interval \div Second), 1)

(***************************************************************************)
(* Heartbeat(client, name, taskID, interval, stop)                         *)
(***************************************************************************)
\* the caller starts Heartbeat with some positive interval
HeartbeatCall(i) ==
    /\ hb.pc = "idle"
    /\ hb' = [hb EXCEPT !.pc = "set", !.interval = i]
    /\ UNCHANGED <<history, health, df, fwVars>>

\* client.Set(HealthyPath, "health", computeTTL(interval)) succeeds; a TTL of
\* 0 is no TTL: the key is permanent
HeartbeatSet ==
    /\ hb.pc = "set"
    /\ Len(history) < MaxHealthIndex
    /\ LET ttl == computeTTL(hb.interval) IN
       /\ history' = Append(history, Event(HealthyPath(HealthTask), "set", "health"))
       /\ health' = [present |-> TRUE, hasTTL |-> ttl > 0, left |-> ttl * Second]
       /\ hb' = [hb EXCEPT !.pc = "sleep", !.timer = hb.interval,
                           !.writes = @ + 1, !.ttl = ttl]
    /\ UNCHANGED <<df, fwVars>>

\* a wrong Heartbeat: a failed write is tried again
HeartbeatSetErrorRetries ==
    /\ hb.pc = "set"
    /\ hb' = [hb EXCEPT !.result = "err"]
    /\ UNCHANGED <<history, health, df, fwVars>>

\* client.Set fails: return err
HeartbeatSetError ==
    /\ hb.pc = "set"
    /\ hb' = [hb EXCEPT !.pc = "done", !.result = "err"]
    /\ UNCHANGED <<history, health, df, fwVars>>

\* case <-time.After(interval)
HeartbeatTimer ==
    /\ hb.pc = "sleep"
    /\ hb.timer = 0
    /\ hb' = [hb EXCEPT !.pc = "set"]
    /\ UNCHANGED <<history, health, df, fwVars>>

\* the owner closes the stop channel
HeartbeatCloseStop ==
    /\ hb.pc # "idle"
    /\ ~hb.stop
    /\ hb' = [hb EXCEPT !.stop = TRUE]
    /\ UNCHANGED <<history, health, df, fwVars>>

\* case <-stop: return nil
HeartbeatStopped ==
    /\ hb.pc = "sleep"
    /\ hb.stop
    /\ hb' = [hb EXCEPT !.pc = "done", !.result = "nil"]
    /\ UNCHANGED <<history, health, df, fwVars>>

(***************************************************************************)
(* Time and the other writers of the store.                                *)
(***************************************************************************)
\* one tick passes; a timer that is due fires before the next tick
Tick ==
    /\ \/ hb.pc = "sleep" /\ hb.timer > 0
       \/ health.present /\ health.hasTTL /\ health.left > 0
    /\ ~(hb.pc = "sleep" /\ hb.timer = 0)
    /\ ~(health.present /\ health.hasTTL /\ health.left = 0)
    /\ hb' = IF hb.pc = "sleep" THEN [hb EXCEPT !.timer = @ - 1] ELSE hb
    /\ health' = IF health.present /\ health.hasTTL
                 THEN [health EXCEPT !.left = @ - 1] ELSE health
    /\ UNCHANGED <<history, df, fwVars>>

\* the TTL of the HealthRecord lapses
Expire ==
    /\ health.present /\ health.hasTTL /\ health.left = 0
    /\ Len(history) < MaxHealthIndex
    /\ history' = Append(history, Event(HealthyPath(HealthTask), "expire", ""))
    /\ health' = [present |-> FALSE, hasTTL |-> FALSE, left |-> 0]
    /\ UNCHANGED <<hb, df, fwVars>>

\* the HealthRecord is deleted
Delete ==
    /\ health.present
    /\ Len(history) < MaxHealthIndex
    /\ history' = Append(history, Event(HealthyPath(HealthTask), "delete", ""))
    /\ health' = [present |-> FALSE, hasTTL |-> FALSE, left |-> 0]
    /\ UNCHANGED <<hb, df, fwVars>>

\* a write of another key advances the store index
OtherKeyWrite ==
    /\ Len(history) < MaxHealthIndex
    /\ history' = Append(history, Event(<<"other", 0>>, "set", ""))
    /\ UNCHANGED <<health, hb, df, fwVars>>

(***************************************************************************)
(* DetectFailure(client, name, taskID, stop)                               *)
(***************************************************************************)
NoResult == <<>>

\* the caller starts DetectFailure; its stop channel may be closed already
DetectFailureCall(stopped) ==
    /\ df.pc = "idle"
    /\ df' = [df EXCEPT !.pc = "get", !.stop = stopped]
    /\ UNCHANGED <<history, health, hb, fwVars>>

\* a wrong AfterGet: a missing key is watched like a present one
AfterGetWatchesAbsent(found) ==
    [df EXCEPT !.pc = "watch", !.waitIndex = EtcdIndex + 1]

\* what DetectFailure does with the result of client.Get(key)
AfterGet(found) ==
    IF found
    THEN [df EXCEPT !.pc = "watch", !.waitIndex = EtcdIndex + 1]
    ELSE [df EXCEPT !.pc = "done", !.result = <<HealthTask, "nil">>]

\* resp, err := client.Get(key): key not found is an error
DetectFailureGet ==
    /\ df.pc = "get"
    /\ df' = [AfterGet(health.present) EXCEPT !.getIndex = EtcdIndex,
                                              !.absent = ~health.present]
    /\ UNCHANGED <<history, health, hb, fwVars>>

\* client.Get fails for another reason (the store cannot be reached)
DetectFailureGetError ==
    /\ df.pc = "get"
    /\ df' = [AfterGet(FALSE) EXCEPT !.getIndex = EtcdIndex,
                                     !.absent = ~health.present]
    /\ UNCHANGED <<history, health, hb, fwVars>>

\* client.Watch(key, waitIndex, false, nil, stop) is accepted by the store
DetectFailureWatch ==
    /\ df.pc = "watch"
    /\ df' = [df EXCEPT !.pc = "waiting", !.etcdIndex = EtcdIndex,
                        !.watches = @ + 1]
    /\ UNCHANGED <<history, health, hb, fwVars>>

\* what DetectFailure does with the response of the watch: event i, EtcdIndex
AfterWatch(i, etcdIndex) ==
    IF history[i].action = "delete" \/ history[i].action = "expire"
    THEN [df EXCEPT !.pc = "done", !.result = <<HealthTask, "nil">>]
    ELSE [df EXCEPT !.pc = "watch", !.waitIndex = etcdIndex + 1]

\* the watch returns the first event of the key at or after waitIndex
DetectFailureEvent ==
    /\ df.pc = "waiting"
    /\ Matching(HealthyPath(HealthTask), df.waitIndex) # {}
    /\ df' = AfterWatch(Min(Matching(HealthyPath(HealthTask), df.waitIndex)),
                        df.etcdIndex)
    /\ UNCHANGED <<history, health, hb, fwVars>>

\* the caller closes the stop channel of DetectFailure
DetectFailureCloseStop ==
    /\ df.pc # "idle"
    /\ ~df.stop
    /\ df' = [df EXCEPT !.stop = TRUE]
    /\ UNCHANGED <<history, health, hb, fwVars>>

\* the watch is stopped: return 0, err
DetectFailureWatchError ==
    /\ df.pc = "waiting"
    /\ df.stop
    /\ df' = [df EXCEPT !.pc = "done", !.result = <<0, "err">>]
    /\ UNCHANGED <<history, health, hb, fwVars>>

(***************************************************************************)
(* Topology and roles.                                                     *)
(***************************************************************************)
Tasks == {1, 2, 3}

\* the task whose framework is followed through its watches; of the other
\* tasks' frameworks only what they write is followed
Self == 2

noneRole == "noneRole"
parentRole == "parentRole"
childRole == "childRole"

\* the topology of the job: at even epochs the chain 1 -> 2 -> 3 (1 is the
\* parent of 2, 2 the parent of 3); at odd epochs 2 is the parent of 1 and 3
\* has no neighbour
ChainTopology ==
    [e \in 0..MaxEpoch |-> [t \in Tasks |->
        IF e % 2 = 0
        THEN [parents  |-> IF t = 1 THEN <<>> ELSE <<t - 1>>,
              children |-> IF t = 3 THEN <<>> ELSE <<t + 1>>]
        ELSE [parents  |-> IF t = 1 THEN <<2>> ELSE <<>>,
              children |-> IF t = 2 THEN <<1>> ELSE <<>>]]]

\* f.topology.GetParents(e), f.topology.GetChildren(e) of task t
GetParents(t, e) == topology[e][t].parents
GetChildren(t, e) == topology[e][t].children

Range(q) == {q[i] : i \in 1..Len(q)}

\* a wrong parentOrChild: the children are looked through first
parentOrChildChildrenFirst(t, taskID) ==
    IF taskID \in Range(GetChildren(t, epoch[t])) THEN childRole
    ELSE IF taskID \in Range(GetParents(t, epoch[t])) THEN parentRole
    ELSE noneRole

\* f.parentOrChild(taskID) in the framework of task t
parentOrChild(t, taskID) ==
    IF taskID \in Range(GetParents(t, epoch[t])) THEN parentRole
    ELSE IF taskID \in Range(GetChildren(t, epoch[t])) THEN childRole
    ELSE noneRole

MakeParentMetaPath(taskID) == <<"parentMeta", taskID>>
MakeChildMetaPath(taskID) == <<"childMeta", taskID>>

(***************************************************************************)
(* start and watchAll.                                                     *)
(***************************************************************************)
\* the watch that watchAll(who, ..) sets up for one taskID: its path and
\* callback, the receiver channel, the stop channel, the two goroutines
NewWatch(who, taskID) ==
    [path      |-> IF who = parentRole THEN MakeChildMetaPath(taskID)
                   ELSE MakeParentMetaPath(taskID),
     callback  |-> IF who = parentRole THEN "ParentMetaReady"
                   ELSE "ChildMetaReady",
     taskID    |-> taskID,
     state     |-> "spawned",   \* etcdClient.Watch: spawned, waiting, done
     waitIndex |-> 0,
     since     |-> 0,
     from      |-> 0,           \* the index from which the watch is registered
     receiver  |-> <<>>,        \* indices of the events in the channel
     closed    |-> FALSE,       \* close(receiver)
     stop      |-> FALSE,       \* the stop channel is closed
     closes    |-> 0,           \* how often the stop channel was closed
     loop      |-> "recv",      \* the receiving goroutine: recv, callback, done
     delivered |-> <<>>]        \* the calls of the task callback, in order

\* the stop channels watchAll returns: one per taskID, in order
watchAll(t, who, taskIDs) == [i \in 1..Len(taskIDs) |-> <<t, who, taskIDs[i]>>]

\* the watches watchAll starts
Watches(ids) == [w \in Range(ids) |-> NewWatch(w[2], w[3])]

\* a wrong start: the children are not watched
startWatchesParentsOnly(t) ==
    /\ ~proc[t].started
    /\ epoch' = [epoch EXCEPT ![t] = 0]
    /\ history' = history \o <<Event(MakeParentMetaPath(t), "create", ""),
                               Event(MakeChildMetaPath(t), "create", "")>>
    /\ LET parentStops == watchAll(t, parentRole, GetParents(t, 0))
       IN /\ watch' = Watches(parentStops) @@ watch
          /\ proc' = [proc EXCEPT ![t].started = TRUE,
                                  ![t].stops = parentStops,
                                  ![t].task = <<"SetEpoch", "Init">>]
    /\ UNCHANGED <<healthVars, topology, requests, dataRespChan>>

\* framework.start() of task t
start(t) ==
    /\ ~proc[t].started
    /\ epoch' = [epoch EXCEPT ![t] = 0]
    /\ history' = history \o <<Event(MakeParentMetaPath(t), "create", ""),
                               Event(MakeChildMetaPath(t), "create", "")>>
    /\ LET parentStops == watchAll(t, parentRole, GetParents(t, 0))
           childStops == watchAll(t, childRole, GetChildren(t, 0))
       IN /\ watch' = Watches(parentStops \o childStops) @@ watch
          /\ proc' = [proc EXCEPT ![t].started = TRUE,
                                  ![t].stops = parentStops \o childStops,
                                  ![t].task = <<"SetEpoch", "Init">>]
    /\ UNCHANGED <<healthVars, topology, requests, dataRespChan>>

\* framework.start() of another task, as far as the others can see it: its
\* own two signal paths are created
PeerStart(t) ==
    /\ ~proc[t].started
    /\ history' = history \o <<Event(MakeParentMetaPath(t), "create", ""),
                               Event(MakeChildMetaPath(t), "create", "")>>
    /\ proc' = [proc EXCEPT ![t].started = TRUE,
                            ![t].task = <<"SetEpoch", "Init">>]
    /\ UNCHANGED <<healthVars, topology, epoch, watch, requests, dataRespChan>>

Running(t) == proc[t].started /\ proc[t].crashed = ""

\* the writes of the store by the framework are bounded in a run
CanWrite ==
    Cardinality({i \in 1..Len(history) : history[i].action # "create"})
        < MaxWrites

\* the largest index of the store in a run: two creates for every task and
\* the writes
MaxIndex == 2 * Cardinality(Tasks) + MaxWrites

\* the payload of the next readiness signal: every write carries a payload of
\* its own, so that a payload names its write
NextMeta == <<"meta", Len(history) + 1>>

\* f.FlagParentMetaReady(meta)
FlagParentMetaReady(t, meta) ==
    /\ Running(t)
    /\ CanWrite
    /\ history' = Append(history, Event(MakeParentMetaPath(t), "set", meta))
    /\ UNCHANGED <<healthVars, fwVars>>

\* f.FlagChildMetaReady(meta)
FlagChildMetaReady(t, meta) ==
    /\ Running(t)
    /\ CanWrite
    /\ history' = Append(history, Event(MakeChildMetaPath(t), "set", meta))
    /\ UNCHANGED <<healthVars, fwVars>>

\* somebody else changes a signal path: an event that is not a "set"
OtherActions == {"delete"}

Peers == Tasks \ {Self}

SignalPaths == {MakeParentMetaPath(t) : t \in Peers}
               \cup {MakeChildMetaPath(t) : t \in Peers}

\* the node of `path` exists: its last event did not remove it
Exists(path) ==
    LET E == {i \in 1..Len(history) : history[i].path = path}
    IN E # {} /\ history[CHOOSE i \in E : \A j \in E : j <= i].action # "delete"

ExternalChange(path, action) ==
    /\ CanWrite
    /\ Exists(path)
    /\ history' = Append(history, Event(path, action, ""))
    /\ UNCHANGED <<healthVars, fwVars>>

\* a wrong SetEpoch: the watches are set up again for the new epoch
SetEpochRewatches(t, e) ==
    /\ Running(t)
    /\ epoch' = [epoch EXCEPT ![t] = e]
    /\ LET stops == watchAll(t, parentRole, GetParents(t, e))
                    \o watchAll(t, childRole, GetChildren(t, e))
       IN /\ watch' = Watches(stops)
          /\ proc' = [proc EXCEPT ![t].stops = stops]
    /\ UNCHANGED <<history, healthVars, topology, requests, dataRespChan>>

\* f.SetEpoch(epoch)
SetEpoch(t, e) ==
    /\ Running(t)
    /\ epoch' = [epoch EXCEPT ![t] = e]
    /\ UNCHANGED <<history, healthVars, topology, proc, watch, requests,
                   dataRespChan>>

(***************************************************************************)
(* go f.etcdClient.Watch(watchPath, 0, false, receiver, stop)              *)
(***************************************************************************)
Alive(w) == w \in DOMAIN watch /\ Running(w[1])

\* the store accepts the first watch request: wait index 0 is "from now"
WatchAccepted(w) ==
    /\ Alive(w)
    /\ watch[w].state = "spawned"
    /\ LET i == IF watch[w].waitIndex = 0 THEN EtcdIndex + 1
                ELSE watch[w].waitIndex
       IN watch' = [watch EXCEPT ![w].state = "waiting",
                                 ![w].since = i,
                                 ![w].from = i]
    /\ UNCHANGED <<history, healthVars, topology, epoch, proc, requests,
                   dataRespChan>>

\* the watch returns the next event of the path; Watch sends it to the
\* receiver and watches again from the index after it
WatchEvent(w) ==
    /\ Alive(w)
    /\ watch[w].state = "waiting"
    /\ Matching(watch[w].path, watch[w].since) # {}
    /\ Len(watch[w].receiver) < ReceiverCap
    /\ LET i == Min(Matching(watch[w].path, watch[w].since)) IN
       watch' = [watch EXCEPT ![w].waitIndex = i + 1,
                              ![w].since = i + 1,
                              ![w].receiver = Append(@, i)]
    /\ UNCHANGED <<history, healthVars, topology, epoch, proc, requests,
                   dataRespChan>>

\* the stop channel is closed: Watch returns and closes the receiver
WatchStopped(w) ==
    /\ Alive(w)
    /\ watch[w].state \in {"spawned", "waiting"}
    /\ watch[w].stop
    /\ watch' = [watch EXCEPT ![w].state = "done", ![w].closed = TRUE]
    /\ UNCHANGED <<history, healthVars, topology, epoch, proc, requests,
                   dataRespChan>>

(***************************************************************************)
(* The receiving goroutine of watchAll.                                    *)
(***************************************************************************)
\* the call taskCallback(taskID, resp.Node.Value) for the event of index i
Call(w, i) ==
    [fn |-> watch[w].callback, taskID |-> watch[w].taskID,
     value |-> history[i].value, index |-> i]

\* a wrong loop: the responses are not taken in the order of the channel
LoopReceiveAnyOrder(w) ==
    /\ Alive(w)
    /\ watch[w].loop = "recv"
    /\ \E k \in 1..Len(watch[w].receiver) :
        LET i == watch[w].receiver[k]
            rest == [j \in 1..(Len(watch[w].receiver) - 1) |->
                        IF j < k THEN watch[w].receiver[j]
                        ELSE watch[w].receiver[j + 1]]
        IN IF history[i].action # "set"
           THEN watch' = [watch EXCEPT ![w].receiver = rest]
           ELSE watch' = [watch EXCEPT ![w].receiver = rest,
                                       ![w].loop = "callback",
                                       ![w].delivered = Append(@, Call(w, i))]
    /\ UNCHANGED <<history, healthVars, topology, epoch, proc, requests,
                   dataRespChan>>

\* a wrong loop: every response is passed to the callback
LoopReceiveAnyAction(w) ==
    /\ Alive(w)
    /\ watch[w].loop = "recv"
    /\ watch[w].receiver # <<>>
    /\ watch' = [watch EXCEPT ![w].receiver = Tail(@),
                              ![w].loop = "callback",
                              ![w].delivered =
                                  Append(@, Call(w, Head(watch[w].receiver)))]
    /\ UNCHANGED <<history, healthVars, topology, epoch, proc, requests,
                   dataRespChan>>

\* a wrong loop: the callbacks of all the watches run one at a time
LoopReceiveOneAtATime(w) ==
    /\ Alive(w)
    /\ watch[w].loop = "recv"
    /\ watch[w].receiver # <<>>
    /\ \A v \in DOMAIN watch : watch[v].loop # "callback"
    /\ LET i == Head(watch[w].receiver) IN
       IF history[i].action # "set"
       THEN watch' = [watch EXCEPT ![w].receiver = Tail(@)]
       ELSE watch' = [watch EXCEPT ![w].receiver = Tail(@),
                                   ![w].loop = "callback",
                                   ![w].delivered = Append(@, Call(w, i))]
    /\ UNCHANGED <<history, healthVars, topology, epoch, proc, requests,
                   dataRespChan>>

\* resp, ok := <-receiver with a response: skip it unless it is a "set",
\* else call the task
LoopReceive(w) ==
    /\ Alive(w)
    /\ watch[w].loop = "recv"
    /\ watch[w].receiver # <<>>
    /\ LET i == Head(watch[w].receiver) IN
       IF history[i].action # "set"
       THEN watch' = [watch EXCEPT ![w].receiver = Tail(@)]
       ELSE watch' = [watch EXCEPT ![w].receiver = Tail(@),
                                   ![w].loop = "callback",
                                   ![w].delivered = Append(@, Call(w, i))]
    /\ UNCHANGED <<history, healthVars, topology, epoch, proc, requests,
                   dataRespChan>>

\* the task callback returns
CallbackReturn(w) ==
    /\ Alive(w)
    /\ watch[w].loop = "callback"
    /\ watch' = [watch EXCEPT ![w].loop = "recv"]
    /\ UNCHANGED <<history, healthVars, topology, epoch, proc, requests,
                   dataRespChan>>

\* resp, ok := <-receiver on the closed, empty channel: return
LoopExit(w) ==
    /\ Alive(w)
    /\ watch[w].loop = "recv"
    /\ watch[w].receiver = <<>>
    /\ watch[w].closed
    /\ watch' = [watch EXCEPT ![w].loop = "done"]
    /\ UNCHANGED <<history, healthVars, topology, epoch, proc, requests,
                   dataRespChan>>

(***************************************************************************)
(* stop and Exit.                                                          *)
(***************************************************************************)
\* the first stop channel of f.stops that is closed already, or 0
FirstClosed(t) ==
    LET closed == {i \in 1..Len(proc[t].stops) : watch[proc[t].stops[i]].stop}
    IN IF closed = {} THEN 0 ELSE Min(closed)

\* f.stop(): close(c) for every c of f.stops; closing a closed channel panics
stop(t) ==
    /\ Running(t)
    /\ LET k == FirstClosed(t)
           n == IF k = 0 THEN Len(proc[t].stops) ELSE k - 1
           done == {proc[t].stops[i] : i \in 1..n}
       IN /\ watch' = [w \in DOMAIN watch |->
                         IF w \in done
                         THEN [watch[w] EXCEPT !.stop = TRUE, !.closes = @ + 1]
                         ELSE watch[w]]
          /\ proc' = [proc EXCEPT ![t].stopCalls = @ + 1,
                                  ![t].crashed =
                                      IF k = 0 THEN ""
                                      ELSE "panic: close of closed channel"]
    /\ UNCHANGED <<history, healthVars, topology, epoch, requests, dataRespChan>>

\* f.Exit(): the body is empty
Exit(t) ==
    /\ Running(t)
    /\ proc' = [proc EXCEPT ![t].exited = TRUE]
    /\ UNCHANGED <<history, healthVars, topology, epoch, watch, requests,
                   dataRespChan>>

(***************************************************************************)
(* The data exchange: DataRequest, the handler of newDataReqHandler, the   *)
(* goroutine that awaits the response, dataResponseEventLoop.              *)
(***************************************************************************)
\* f.addressMap: the address of every task of the job
addressMap == [t \in Tasks |-> <<"addr", t>>]

\* a task ID that is not a task of the job
NoTask == 0

\* the descriptor of the next request: every request carries its own
NextReq == <<"req", Len(requests) + 1>>

\* what the task of `server` returns from ServeAsParent / ServeAsChild
Data(server, fn, fromID, req) == <<"data", server, fn, fromID, req>>

None == [fn |-> "none"]

\* f.DataRequest(toID, req) in the framework of task t
DataRequest(t, toID, req) ==
    /\ Running(t)
    /\ IF toID \notin DOMAIN addressMap
       THEN /\ proc' = [proc EXCEPT ![t].crashed = "fatal: ID not found"]
            /\ UNCHANGED requests
       ELSE /\ requests' = Append(requests,
                [from |-> t, to |-> toID, req |-> req, state |-> "sent",
                 served |-> None, ready |-> None,
                 callEpoch |-> epoch[t], serveEpoch |-> 0, readyEpoch |-> 0,
                 returned |-> FALSE])
            /\ UNCHANGED proc
    /\ UNCHANGED <<history, healthVars, topology, epoch, watch, dataRespChan>>

\* a wrong handler: the two roles are mixed up
serveDataSwapped(role) ==
    CASE role = parentRole -> "ServeAsParent"
      [] role = childRole -> "ServeAsChild"
      [] OTHER -> "panic"

\* the switch of the handler: which function of the task serves the request
serveData(role) ==
    CASE role = parentRole -> "ServeAsChild"
      [] role = childRole -> "ServeAsParent"
      [] OTHER -> "panic"

\* the handler of the server runs for request r: it serves the request and
\* writes the data, or panics, and then no response is written
ServeDataRequest(r) ==
    /\ r \in 1..Len(requests)
    /\ requests[r].state = "sent"
    /\ LET server == requests[r].to
           fromID == requests[r].from
           fn == serveData(parentOrChild(server, fromID))
       IN /\ Running(server)
          /\ requests' = [requests EXCEPT
                ![r].serveEpoch = epoch[server],
                ![r].state = IF fn = "panic" THEN "aborted" ELSE "served",
                ![r].served =
                    IF fn = "panic" THEN [fn |-> "panic"]
                    ELSE [fn |-> fn, on |-> server,
                          args |-> <<fromID, requests[r].req>>,
                          data |-> Data(server, fn, fromID, requests[r].req)]]
    /\ UNCHANGED <<history, healthVars, topology, epoch, proc, watch,
                   dataRespChan>>

\* the goroutine of DataRequest gets the response: an error is fatal, the
\* data go to dataRespChan with the ID and the descriptor of the request
ResponseReceived(r) ==
    /\ r \in 1..Len(requests)
    /\ Running(requests[r].from)
    /\ LET t == requests[r].from IN
       \/ /\ requests[r].state = "aborted"
          /\ requests' = [requests EXCEPT ![r].state = "failed"]
          /\ proc' = [proc EXCEPT ![t].crashed = "fatal: http.Get"]
          /\ UNCHANGED dataRespChan
       \/ /\ requests[r].state = "served"
          /\ Len(dataRespChan[t]) < DataRespCap
          /\ requests' = [requests EXCEPT ![r].state = "queued"]
          /\ dataRespChan' = [dataRespChan EXCEPT ![t] =
                Append(@, [id |-> r, taskID |-> requests[r].to,
                           req |-> requests[r].req,
                           data |-> requests[r].served.data])]
          /\ UNCHANGED proc
    /\ UNCHANGED <<history, healthVars, topology, epoch, watch>>

\* a wrong event loop: the two roles are mixed up
dataReadySwapped(role) ==
    CASE role = parentRole -> "ChildDataReady"
      [] role = childRole -> "ParentDataReady"
      [] OTHER -> "panic"

\* the switch of dataResponseEventLoop: which callback gets the response
dataReady(role) ==
    CASE role = parentRole -> "ParentDataReady"
      [] role = childRole -> "ChildDataReady"
      [] OTHER -> "panic"

\* the data-ready callbacks of task t that were started and have not returned
RunningCallbacks(t) ==
    {r \in 1..Len(requests) :
        /\ requests[r].from = t
        /\ requests[r].ready.fn \in {"ParentDataReady", "ChildDataReady"}
        /\ ~requests[r].returned}

\* a wrong event loop: dataReady is called in the loop itself, not in a
\* goroutine, so the loop goes on only when the callback has returned
dataResponseEventLoopWaits(t) ==
    /\ Running(t)
    /\ dataRespChan[t] # <<>>
    /\ RunningCallbacks(t) = {}
    /\ LET dataResp == Head(dataRespChan[t])
           fn == dataReady(parentOrChild(t, dataResp.taskID))
       IN /\ dataRespChan' = [dataRespChan EXCEPT ![t] = Tail(@)]
          /\ requests' = [requests EXCEPT
                ![dataResp.id].readyEpoch = epoch[t],
                ![dataResp.id].state = "dispatched",
                ![dataResp.id].ready =
                    IF fn = "panic" THEN [fn |-> "panic"]
                    ELSE [fn |-> fn, on |-> t,
                          args |-> <<dataResp.taskID, dataResp.req,
                                     dataResp.data>>]]
          /\ proc' = [proc EXCEPT ![t].crashed =
                IF fn = "panic" THEN "panic: unimplemented" ELSE @]
    /\ UNCHANGED <<history, healthVars, topology, epoch, watch>>

\* the data-ready callback that was started for request r returns
DataReadyReturn(r) ==
    /\ r \in 1..Len(requests)
    /\ r \in RunningCallbacks(requests[r].from)
    /\ Running(requests[r].from)
    /\ requests' = [requests EXCEPT ![r].returned = TRUE]
    /\ UNCHANGED <<history, healthVars, topology, epoch, proc, watch,
                   dataRespChan>>

\* one turn of f.dataResponseEventLoop() in the framework of task t: the
\* callback is started in a goroutine of its own (go dataReady(..))
dataResponseEventLoop(t) ==
    /\ Running(t)
    /\ dataRespChan[t] # <<>>
    /\ LET dataResp == Head(dataRespChan[t])
           fn == dataReady(parentOrChild(t, dataResp.taskID))
       IN /\ dataRespChan' = [dataRespChan EXCEPT ![t] = Tail(@)]
          /\ requests' = [requests EXCEPT
                ![dataResp.id].readyEpoch = epoch[t],
                ![dataResp.id].state = "dispatched",
                ![dataResp.id].ready =
                    IF fn = "panic" THEN [fn |-> "panic"]
                    ELSE [fn |-> fn, on |-> t,
                          args |-> <<dataResp.taskID, dataResp.req,
                                     dataResp.data>>]]
          /\ proc' = [proc EXCEPT ![t].crashed =
                IF fn = "panic" THEN "panic: unimplemented" ELSE @]
    /\ UNCHANGED <<history, healthVars, topology, epoch, watch>>

(***************************************************************************)
(* The initial state: nothing has started.                                 *)
(***************************************************************************)
HealthInit ==
    /\ health = [present |-> FALSE, hasTTL |-> FALSE, left |-> 0]
    /\ hb = [pc |-> "idle", interval |-> 0, timer |-> 0, stop |-> FALSE,
             result |-> "", writes |-> 0, ttl |-> 0]
    /\ df = [pc |-> "idle", stop |-> FALSE, waitIndex |-> 0, etcdIndex |-> 0,
             getIndex |-> 0, absent |-> FALSE, watches |-> 0,
             result |-> NoResult]

FrameworkInit ==
    /\ topology = ChainTopology
    /\ epoch = [t \in Tasks |-> 0]
    /\ proc = [t \in Tasks |->
                 [started |-> FALSE, crashed |-> "", exited |-> FALSE,
                  stopCalls |-> 0, stops |-> <<>>, task |-> <<>>]]
    /\ watch = <<>>
    /\ requests = <<>>
    /\ dataRespChan = [t \in Tasks |-> <<>>]

Init ==
    /\ history = <<>>
    /\ HealthInit
    /\ FrameworkInit

(***************************************************************************)
(* The health monitor on its own.                                          *)
(***************************************************************************)
NextHealth ==
    \/ \E i \in 1..MaxInterval : HeartbeatCall(i)
    \/ HeartbeatSet
    \/ HeartbeatSetError
    \/ HeartbeatTimer
    \/ HeartbeatCloseStop
    \/ HeartbeatStopped
    \/ Tick
    \/ Expire
    \/ Delete
    \/ OtherKeyWrite
    \/ \E s \in BOOLEAN : DetectFailureCall(s)
    \/ DetectFailureGet
    \/ DetectFailureGetError
    \/ DetectFailureWatch
    \/ DetectFailureEvent
    \/ DetectFailureCloseStop
    \/ DetectFailureWatchError

SpecHealth == Init /\ [][NextHealth]_vars

(***************************************************************************)
(* The readiness protocol: the framework of Self starts and watches its    *)
(* neighbours, which start and signal.  The watches of the other tasks     *)
(* change nothing Self can see and are not followed.                       *)
(***************************************************************************)
WatchIds == {<<Self, who, n>> : who \in {parentRole, childRole}, n \in Tasks}

Signals ==
    \/ start(Self)
    \/ \E t \in Peers : PeerStart(t)
    \/ \E t \in Peers : FlagParentMetaReady(t, NextMeta)
    \/ \E t \in Peers : FlagChildMetaReady(t, NextMeta)
    \/ \E w \in WatchIds : WatchAccepted(w)
    \/ \E w \in WatchIds : WatchEvent(w)
    \/ \E w \in WatchIds : LoopReceive(w)
    \/ \E w \in WatchIds : CallbackReturn(w)

Next ==
    \/ Signals
    \/ \E p \in SignalPaths, a \in OtherActions : ExternalChange(p, a)

Spec == Init /\ [][Next]_vars

\* the readiness protocol with no other writer and no change of epoch
SpecWatch == Init /\ [][Signals]_vars

\* the readiness protocol with changes of epoch
NextEpoch ==
    \/ Signals
    \/ \E e \in 0..MaxEpoch : SetEpoch(Self, e)

SpecEpoch == Init /\ [][NextEpoch]_vars

\* the watches that start(Self) sets up over ChainTopology
StartWatches ==
    {<<Self, parentRole, ChainTopology[0][Self].parents[i]>> :
        i \in 1..Len(ChainTopology[0][Self].parents)}
    \cup {<<Self, childRole, ChainTopology[0][Self].children[i]>> :
        i \in 1..Len(ChainTopology[0][Self].children)}

\* the two goroutines of watch w run when they can, and its callback returns
FairWatch(w) ==
    /\ WF_vars(WatchEvent(w))
    /\ WF_vars(LoopReceive(w))
    /\ WF_vars(CallbackReturn(w))

(***************************************************************************)
(* Shutdown: the readiness protocol with stop() and Exit().                *)
(***************************************************************************)
NextStop ==
    \/ Signals
    \/ \E w \in WatchIds : WatchStopped(w)
    \/ \E w \in WatchIds : LoopExit(w)
    \/ stop(Self)
    \/ Exit(Self)

SpecStop == Init /\ [][NextStop]_vars

(***************************************************************************)
(* The data exchange, from the state in which the three frameworks have    *)
(* started: Self requests, every task serves, every task changes epoch.    *)
(***************************************************************************)
StartedProc(stops) ==
    [started |-> TRUE, crashed |-> "", exited |-> FALSE, stopCalls |-> 0,
     stops |-> stops, task |-> <<"SetEpoch", "Init">>]

InitData ==
    /\ history = [i \in 1..(2 * Cardinality(Tasks)) |->
                    Event(IF i % 2 = 1 THEN MakeParentMetaPath((i + 1) \div 2)
                          ELSE MakeChildMetaPath(i \div 2), "create", "")]
    /\ HealthInit
    /\ topology = ChainTopology
    /\ epoch = [t \in Tasks |-> 0]
    /\ LET stops == watchAll(Self, parentRole, GetParents(Self, 0))
                    \o watchAll(Self, childRole, GetChildren(Self, 0))
       IN /\ proc = [t \in Tasks |->
                       StartedProc(IF t = Self THEN stops ELSE <<>>)]
          /\ watch = Watches(stops)
    /\ requests = <<>>
    /\ dataRespChan = [t \in Tasks |-> <<>>]

NextData ==
    \/ \E toID \in Tasks \cup {NoTask} :
          Len(requests) < MaxReq /\ DataRequest(Self, toID, NextReq)
    \/ \E r \in 1..MaxReq : ServeDataRequest(r)
    \/ \E r \in 1..MaxReq : ResponseReceived(r)
    \/ \E t \in Tasks : dataResponseEventLoop(t)
    \/ \E t \in Tasks, e \in 0..MaxEpoch : SetEpoch(t, e)

SpecData == InitData /\ [][NextData]_vars

\* the handler of the server, the goroutine of DataRequest and the event
\* loop are goroutines of their own: each of them runs when it can.  The
\* tasks call DataRequest and SetEpoch when they like
FairData ==
    /\ \A r \in 1..MaxReq : WF_vars(ServeDataRequest(r))
    /\ \A r \in 1..MaxReq : WF_vars(ResponseReceived(r))
    /\ \A t \in Tasks : WF_vars(dataResponseEventLoop(t))

SpecDataLive == SpecData /\ FairData

(***************************************************************************)
(* The dispatch loop on its own: Self requests, the responses queue up in  *)
(* dataRespChan, the loop starts the callbacks, which return or do not.    *)
(* No task changes epoch.                                                  *)
(***************************************************************************)
NextDispatch ==
    \/ \E toID \in Tasks :
          Len(requests) < MaxQueue /\ DataRequest(Self, toID, NextReq)
    \/ \E r \in 1..MaxQueue : ServeDataRequest(r)
    \/ \E r \in 1..MaxQueue : ResponseReceived(r)
    \/ dataResponseEventLoop(Self)
    \/ \E r \in 1..MaxQueue : DataReadyReturn(r)

SpecDispatch == InitData /\ [][NextDispatch]_vars

(***************************************************************************)
(* Role resolution on its own: the parent and child lists of Self at epoch *)
(* 0 are any two lists of its peers, also lists that overlap; the tasks    *)
(* request data from Self, whose handler classifies them, and Self changes *)
(* epoch.                                                                  *)
(***************************************************************************)
\* the lists of distinct peers
NeighbourLists ==
    {<<>>} \cup {<<a>> : a \in Peers}
           \cup {q \in {<<a, b>> : a \in Peers, b \in Peers} : q[1] # q[2]}

InitRole ==
    /\ history = [i \in 1..(2 * Cardinality(Tasks)) |->
                    Event(IF i % 2 = 1 THEN MakeParentMetaPath((i + 1) \div 2)
                          ELSE MakeChildMetaPath(i \div 2), "create", "")]
    /\ HealthInit
    /\ \E p \in NeighbourLists, c \in NeighbourLists :
          topology = [ChainTopology EXCEPT
                        ![0][Self] = [parents |-> p, children |-> c]]
    /\ epoch = [t \in Tasks |-> 0]
    /\ LET stops == watchAll(Self, parentRole, GetParents(Self, 0))
                    \o watchAll(Self, childRole, GetChildren(Self, 0))
       IN /\ proc = [t \in Tasks |->
                       StartedProc(IF t = Self THEN stops ELSE <<>>)]
          /\ watch = Watches(stops)
    /\ requests = <<>>
    /\ dataRespChan = [t \in Tasks |-> <<>>]

NextRole ==
    \/ \E t \in Tasks :
          Len(requests) < MaxReq /\ DataRequest(t, Self, NextReq)
    \/ \E r \in 1..MaxReq : ServeDataRequest(r)
    \/ \E e \in 0..MaxEpoch : SetEpoch(Self, e)

SpecRole == InitRole /\ [][NextRole]_vars

(***************************************************************************)
(* Properties of the health monitor.                                       *)
(***************************************************************************)
\* the events of the HealthRecord that end the life of the task
Terminal(i) ==
    /\ history[i].path = HealthyPath(HealthTask)
    /\ history[i].action \in {"delete", "expire"}

\* C1: the TTL of every heartbeat write, in seconds, is at least the
\* heartbeat interval (ticks on both sides)
C1_TTLAtLeastInterval ==
    hb.writes > 0 => hb.ttl * Second >= hb.interval

\* C2: while DetectFailure has not returned, no delete or expire event of the
\* HealthRecord that came after its Get lies below the index of its next
\* watch: the terminal event is never skipped
C2_TerminalEventNeverSkipped ==
    df.pc \in {"watch", "waiting"} =>
        \A i \in (df.getIndex + 1)..Len(history) :
            Terminal(i) => i >= df.waitIndex

\* C3: DetectFailure on a task with no HealthRecord has returned (T, nil)
\* at once, with no watch issued, whatever the stop channel
C3_AbsentReturnsAtOnce ==
    (df.pc \notin {"idle", "get"} /\ df.absent) =>
        /\ df.pc = "done"
        /\ df.result = <<HealthTask, "nil">>
        /\ df.watches = 0

\* C3 happens: the key was absent, the stop channel closed, T was returned
C3_Witness ==
    /\ df.absent /\ df.stop
    /\ df.pc = "done" /\ df.result = <<HealthTask, "nil">>


(***************************************************************************)
(* Properties of the readiness protocol.                                   *)
(***************************************************************************)
\* the "set" events of a path: the writes of Flag*MetaReady
Sets(path) ==
    {i \in 1..Len(history) : history[i].path = path /\ history[i].action = "set"}

\* the events whose payload was passed to the callback of watch w
Delivered(w) == {watch[w].delivered[k].index : k \in 1..Len(watch[w].delivered)}

\* watch w has nothing left to do: the store has no further event for it and
\* its receiver channel is empty
CaughtUp(w) ==
    /\ watch[w].state = "waiting"
    /\ Matching(watch[w].path, watch[w].since) = {}
    /\ watch[w].receiver = <<>>

\* C4: no readiness signal is lost: once the watch of B on the path of its
\* parent A has caught up, every write of A has been passed to
\* ParentMetaReady, also a write made before the watch was registered
C4_NoWriteLost ==
    \A w \in DOMAIN watch :
        (w[2] = parentRole /\ CaughtUp(w)) =>
            Sets(MakeChildMetaPath(w[3])) \subseteq Delivered(w)

\* C9: a callback is called only for a "set" event, with the callback and the
\* neighbour of its watch, and while the receiver is open the loop goes on
C9_OnlySetDelivered ==
    \A w \in DOMAIN watch :
        /\ \A k \in 1..Len(watch[w].delivered) :
              LET c == watch[w].delivered[k] IN
              /\ history[c.index].action = "set"
              /\ history[c.index].path = watch[w].path
              /\ c.taskID = w[3]
              /\ c.fn = IF w[2] = parentRole THEN "ParentMetaReady"
                        ELSE "ChildMetaReady"
        /\ ~watch[w].closed => watch[w].loop # "done"

\* C9 happens: the watch has passed an event of its path that is not a
\* "set", and has called the callback for a "set" that came after it
C9_Witness ==
    \E w \in DOMAIN watch :
        \E k \in 1..Len(watch[w].delivered) :
            \E j \in 1..Len(history) :
                /\ watch[w].state = "waiting"
                /\ watch[w].from <= j
                /\ j < watch[w].delivered[k].index
                /\ history[j].path = watch[w].path
                /\ history[j].action # "set"

\* C10: the callback of one watch gets the payloads in the order of the store
\* indices of their writes, each payload that of its write
C10_DeliveredInIndexOrder ==
    \A w \in DOMAIN watch :
        \A k \in 1..Len(watch[w].delivered) :
            /\ watch[w].delivered[k].value
                   = history[watch[w].delivered[k].index].value
            /\ \A l \in 1..Len(watch[w].delivered) :
                  k < l => watch[w].delivered[k].index
                               < watch[w].delivered[l].index

\* C10 happens: a neighbour wrote twice and both payloads were delivered
C10_Witness ==
    \E w \in DOMAIN watch :
        /\ Len(watch[w].delivered) >= 2
        /\ watch[w].delivered[1].value # watch[w].delivered[2].value

(***************************************************************************)
(* Properties of the shutdown.                                             *)
(***************************************************************************)
\* C7: after Exit() every stop channel of the framework is closed
C7_ExitClosesStops ==
    proc[Self].exited =>
        \A i \in 1..Len(proc[Self].stops) : watch[proc[Self].stops[i]].stop

\* C8: after any number of calls of stop() every stop channel has been closed
\* exactly once and nothing has panicked
C8_StopTwiceIsSafe ==
    proc[Self].stopCalls > 0 =>
        /\ proc[Self].crashed = ""
        /\ \A i \in 1..Len(proc[Self].stops) :
              watch[proc[Self].stops[i]].closes = 1

(***************************************************************************)
(* Properties of the data exchange.                                        *)
(***************************************************************************)
Parents(t, e) == Range(topology[e][t].parents)
Children(t, e) == Range(topology[e][t].children)

\* a is a child of b at epoch e, for both of them
ChildOf(a, b, e) == a \in Children(b, e) /\ b \in Parents(a, e)

\* the exchange of request r is one of a child with its parent
ChildRequest(r) ==
    /\ r \in 1..Len(requests)
    /\ ChildOf(requests[r].from, requests[r].to, requests[r].callEpoch)

\* the server or the requester classified its peer in another epoch than
\* the one of the call
EpochMoved(q) ==
    \/ q.served.fn # "none" /\ q.serveEpoch # q.callEpoch
    \/ q.ready.fn # "none" /\ q.readyEpoch # q.callEpoch

\* what has been served and dispatched for the requests of children is
\* ServeAsParent(A, d) on B and ParentDataReady(B, d, X) on A, nothing else
ChildGetsParentData ==
    \A r \in 1..Len(requests) :
        LET q == requests[r]
            e == q.callEpoch
        IN ChildOf(q.from, q.to, e) =>
            /\ (q.served.fn # "none" /\ q.serveEpoch = e) =>
                  /\ q.served.fn = "ServeAsParent"
                  /\ q.served.on = q.to
                  /\ q.served.args = <<q.from, q.req>>
            /\ (q.ready.fn # "none" /\ q.serveEpoch = e /\ q.readyEpoch = e) =>
                  /\ q.ready.fn = "ParentDataReady"
                  /\ q.ready.on = q.from
                  /\ q.ready.args = <<q.to, q.req, q.served.data>>

\* the exchange of request r has come to its end: ParentDataReady was called
\* on the requester, or an epoch moved under it, or the requester's process
\* has ended meanwhile.  Once true it stays true
ChildRequestDone(r) ==
    /\ r \in 1..Len(requests)
    /\ \/ requests[r].ready.fn = "ParentDataReady"
       \/ EpochMoved(requests[r])
       \/ proc[requests[r].from].crashed # ""

\* every exchange of a child with its parent that has begun has come to its end
ChildRequestsDone ==
    \A r \in 1..Len(requests) : ChildRequest(r) => ChildRequestDone(r)

\* C5: when A, a child of B, requests d from B and the exchange runs in that
\* epoch: B serves it with ServeAsParent(A, d), and what is dispatched is
\* ParentDataReady(B, d, X) on A, with X the bytes B returned, and no other
\* callback; and that callback is called eventually, as long as A runs: from
\* some time on no exchange of a child with its parent is left unfinished
C5_ChildGetsParentData ==
    /\ []ChildGetsParentData
    /\ <>[]ChildRequestsDone

\* C5 happens: such an exchange has run to its callback
C5_Witness ==
    \E r \in 1..Len(requests) :
        /\ ChildOf(requests[r].from, requests[r].to, requests[r].callEpoch)
        /\ requests[r].serveEpoch = requests[r].callEpoch
        /\ requests[r].readyEpoch = requests[r].callEpoch
        /\ requests[r].ready.fn = "ParentDataReady"

\* C6: the handler serves a request of a parent with ServeAsChild, one of a
\* child with ServeAsParent, and one of neither with nothing: no function of
\* the task is called and no data are written
C6_ServedByRole ==
    \A r \in 1..Len(requests) :
        LET q == requests[r] IN
        q.served.fn # "none" =>
            /\ q.from \in Parents(q.to, q.serveEpoch) =>
                  q.served.fn = "ServeAsChild"
            /\ q.from \in Children(q.to, q.serveEpoch) =>
                  q.served.fn = "ServeAsParent"
            /\ q.from \notin Parents(q.to, q.serveEpoch)
                             \cup Children(q.to, q.serveEpoch) =>
                  /\ q.served = [fn |-> "panic"]
                  /\ q.state \in {"aborted", "failed"}
                  /\ q.ready.fn = "none"

\* C6 happens: a request of a task that is neither parent nor child of the
\* server was rejected, and the requester got an error instead of data
C6_Witness ==
    \E r \in 1..Len(requests) :
        /\ requests[r].from \notin Parents(requests[r].to, requests[r].serveEpoch)
                \cup Children(requests[r].to, requests[r].serveEpoch)
        /\ requests[r].served.fn = "panic"
        /\ requests[r].state = "failed"

(***************************************************************************)
(* Properties of the role resolution.                                      *)
(***************************************************************************)
\* C11: for every observer t and subject s, parentOrChild yields exactly one
\* role, by the lists of t's current epoch: Parent iff s is a parent, Child
\* iff s is a child and no parent, None otherwise; and the handler serves
\* the requests by that role
C11_RoleOfSubject ==
    /\ \A t \in Tasks, s \in Tasks :
          LET role == parentOrChild(t, s)
              isParent == s \in Parents(t, epoch[t])
              isChild == s \in Children(t, epoch[t])
          IN /\ role \in {parentRole, childRole, noneRole}
             /\ role = parentRole <=> isParent
             /\ role = childRole <=> (isChild /\ ~isParent)
             /\ role = noneRole <=> (~isParent /\ ~isChild)
    /\ \A r \in 1..Len(requests) :
          LET q == requests[r] IN
          q.served.fn # "none" =>
             /\ q.served.fn = "ServeAsChild"
                   <=> q.from \in Parents(q.to, q.serveEpoch)
             /\ q.served.fn = "ServeAsParent"
                   <=> (q.from \in Children(q.to, q.serveEpoch)
                        /\ q.from \notin Parents(q.to, q.serveEpoch))

\* C11 happens: a task that is in both lists of Self has been served as a
\* parent of Self
C11_Witness ==
    \E r \in 1..Len(requests) :
        LET q == requests[r] IN
        /\ q.from \in Parents(q.to, q.serveEpoch)
        /\ q.from \in Children(q.to, q.serveEpoch)
        /\ q.served.fn = "ServeAsChild"

(***************************************************************************)
(* Properties of the epoch.                                                *)
(***************************************************************************)
\* C12: the epoch of a framework never becomes smaller, whatever the
\* arguments of the calls of SetEpoch
C12_EpochNeverDecreases ==
    [][\A t \in Tasks : epoch'[t] >= epoch[t]]_vars

(***************************************************************************)
(* Further properties of the health monitor.                               *)
(***************************************************************************)
\* the step is a write of the HealthRecord by Heartbeat
HeartbeatWrites ==
    /\ hb.pc = "set"
    /\ hb'.pc = "sleep"
    /\ hb'.writes = hb.writes + 1
    /\ hb'.timer = hb.interval
    /\ history' = Append(history, Event(HealthyPath(HealthTask), "set", "health"))

C14_NoExpiryBetweenWrites ==
    (hb.pc = "sleep" /\ ~hb.stop /\ hb.timer > 0
        /\ health.present /\ health.hasTTL) => health.left > 0

\* C15: DetectFailure has returned (T, nil) only if the record was absent
\* when it read it, or if it watched and a delete or expire event of the
\* record came after the read; an error of the watch gives (0, err)
C15_FailureOnlyWhenGone ==
    /\ df.result = <<HealthTask, "nil">> =>
          \/ df.absent
          \/ /\ df.watches > 0
             /\ \E i \in (df.getIndex + 1)..Len(history) : Terminal(i)
    /\ (df.pc = "done" /\ df.result # <<HealthTask, "nil">>) =>
          df.result = <<0, "err">>

(***************************************************************************)
(* Further properties of the readiness protocol.                           *)
(***************************************************************************)
\* the "set" events of its path that came to the store since watch w was
\* registered
Due(w) == {i \in Sets(watch[w].path) : i >= watch[w].from}

\* the registered watch w has passed every event that is due to it to its callback
Settled(w) ==
    (w \in DOMAIN watch /\ watch[w].state = "waiting") =>
        Due(w) \subseteq Delivered(w)

\* C16: the watches of a framework are independent: when the goroutines of
\* a watch run and its own callback returns, every "set" event that is due
\* to it is passed to its callback eventually, whatever the other watches
\* do: their paths may get no event, their callbacks may never return
C16_WatchesIndependent ==
    \A w \in StartWatches : FairWatch(w) => <>[]Settled(w)

\* C16 happens: the callback of a watch is still running, and another watch
\* has passed on an event that was written after that callback was called
C16_Witness ==
    \E x \in DOMAIN watch, y \in DOMAIN watch :
        /\ x # y
        /\ watch[x].loop = "callback"
        /\ \E k \in 1..Len(watch[y].delivered) :
              watch[y].delivered[k].index
                  > watch[x].delivered[Len(watch[x].delivered)].index

(***************************************************************************)
(* Properties of the dispatch loop.                                        *)
(***************************************************************************)
\* the step adds a response at the end of the queue of task t
Queued(t) ==
    /\ Len(dataRespChan'[t]) = Len(dataRespChan[t]) + 1
    /\ SubSeq(dataRespChan'[t], 1, Len(dataRespChan[t])) = dataRespChan[t]

\* the step takes the first response of the queue of task t and starts the
\* callback for its request
Dispatched(t) ==
    /\ dataRespChan[t] # <<>>
    /\ dataRespChan'[t] = Tail(dataRespChan[t])
    /\ requests[Head(dataRespChan[t]).id].state = "queued"
    /\ requests'[Head(dataRespChan[t]).id].state = "dispatched"
    /\ requests'[Head(dataRespChan[t]).id].ready.args
          = <<Head(dataRespChan[t]).taskID, Head(dataRespChan[t]).req,
              Head(dataRespChan[t]).data>>

\* C17: the responses leave the one queue in the order in which they came,
\* one callback is started for each, and the loop does not wait for a
\* callback: when the loop runs, the queue is emptied although callbacks
\* never return
C17_DispatchFIFOConcurrent ==
    /\ [][\A t \in Tasks : dataRespChan'[t] # dataRespChan[t] =>
                (Queued(t) \/ Dispatched(t))]_vars
    /\ [][\A r \in 1..Len(requests) :
            (requests[r].ready # requests'[r].ready) =>
                (requests[r].ready = None /\ Dispatched(requests[r].from))]_vars
    /\ WF_vars(dataResponseEventLoop(Self)) =>
            <>[](Running(Self) => dataRespChan[Self] = <<>>)

\* C17 happens: two callbacks run at once: the loop has started the second
\* while the first had not returned
C17_Witness ==
    \E r1, r2 \in 1..Len(requests) :
        /\ r1 # r2
        /\ {r1, r2} \subseteq RunningCallbacks(Self)

(***************************************************************************)
(* Properties of the start and of SetEpoch.                                *)
(***************************************************************************)
\* the neighbours of task t in the topology of epoch 0
Snapshot(t) == Parents(t, 0) \cup Children(t, 0)

\* the stop channels start(t) keeps: one for every parent, then one for
\* every child of epoch 0
SnapshotStops(t) ==
    watchAll(t, parentRole, GetParents(t, 0))
        \o watchAll(t, childRole, GetChildren(t, 0))

\* what start() of Self has done when it calls Init
Started ==
    /\ proc[Self].task = <<"SetEpoch", "Init">>
    /\ \E i, j \in 1..Len(history) :
          /\ i < j
          /\ history[i] = Event(MakeParentMetaPath(Self), "create", "")
          /\ history[j] = Event(MakeChildMetaPath(Self), "create", "")
    /\ proc[Self].stops = SnapshotStops(Self)
    /\ DOMAIN watch = Range(SnapshotStops(Self))
    /\ \A w \in DOMAIN watch :
          /\ watch[w].taskID = w[3]
          /\ watch[w].path = IF w[2] = parentRole THEN MakeChildMetaPath(w[3])
                             ELSE MakeParentMetaPath(w[3])

RoleAtCall(q) ==
    IF q.to \in Parents(q.from, q.callEpoch) THEN parentRole
    ELSE IF q.to \in Children(q.from, q.callEpoch) THEN childRole
    ELSE noneRole

\* C20: a response of a task that was a parent or a child of the requester
\* when the request was made is passed to the callback of that role,
\* whatever calls of SetEpoch come in between: the loop does not panic on
\* it and does not pass it to the callback of the other role
C20_DispatchedByRoleAtCall ==
    \A r \in 1..Len(requests) :
        LET q == requests[r] IN
        (RoleAtCall(q) # noneRole /\ q.ready.fn # "none") =>
            q.ready.fn = dataReady(RoleAtCall(q))
====
